---- MODULE Spec2Model ----
(***************************************************************************)
(* Word Appendix Manager: the coordinator (core/appendix_manager.py), the  *)
(* parts of the document backend (core/word_manager.py) and of the PDF     *)
(* backend (core/pdf_handler.py) it drives, and the controller's title     *)
(* generation (gui/controller.py).                                         *)
(*                                                                         *)
(* A PDF's content is the sequence of the sources it was assembled from;   *)
(* <<>> stands for "no file at this path".                                 *)
(***************************************************************************)
EXTENDS Integers, Sequences, FiniteSets, TLC

VARIABLES
    appendices_added,   \* AppendixManager.appendices_added
    temp_files,         \* AppendixManager.temp_files (temp dir id of each word_document.pdf)
    temp_dir,           \* PDFHandler.temp_dir, 0 for None
    next_dir,           \* the name the next tempfile.mkdtemp will produce
    fs_dirs,            \* temp directories that exist on the filesystem
    fs_temp,            \* temp directories whose word_document.pdf exists
    fs_out,             \* output path -> content of the file there (<<>>: no file)
    document,           \* what add_appendix_section appended to the Word document
    last,               \* outcome of the last coordinator call
    v_in,               \* validate_appendices: the candidates of the last call
    v_out,              \* validate_appendices: the outcome of the last call
    max_pdf_size_mb,    \* settings.max_pdf_size_mb
    appendix_data,      \* AppController.appendix_data
    numbering_style,    \* MainWindow.get_numbering_style()
    worker,             \* ProcessingWorker: its fields and the position of process()
    window,             \* MainWindow: its appendix list, its list widget, its document
    controller,         \* AppController: its document, what it asked and reported
    settings            \* AppSettings: defaults and settings, with the dicts they share

vars == <<appendices_added, temp_files, temp_dir, next_dir, fs_dirs, fs_temp,
          fs_out, document, last,
          v_in, v_out, max_pdf_size_mb, appendix_data, numbering_style, worker,
          window, controller, settings>>

coordVars == <<appendices_added, temp_files, temp_dir, next_dir, fs_dirs, fs_temp,
               fs_out, document, last>>
validateVars == <<v_in, v_out, max_pdf_size_mb>>
guiVars == <<appendix_data, numbering_style, window, controller, settings>>

----------------------------------------------------------------------------
(* Bounds *)

MaxSections == 3      \* placeholder sections inserted into one document
MaxMerged == 2        \* records a session holds when the final PDF is assembled
MaxSuffix == 1        \* largest numeric suffix of a default output name
MaxTempDirs == 1      \* temp directories made in one session
MaxBatch == 2         \* records passed to one add_multiple_appendices call
MaxTempFiles == 2     \* entries of temp_files

----------------------------------------------------------------------------
(* Input domains *)

NoPath == "none"

\* appendix_data dicts handed to add_appendix
AppendixInputs ==
    { [path |-> "a.pdf",    title |-> "Appendix A", page_count |-> 3],
      [path |-> "b.pdf",    title |-> "Appendix B", page_count |-> 1],
      [path |-> "gone.pdf", title |-> "Appendix C", page_count |-> 2],
      [path |-> NoPath,     title |-> "Appendix D", page_count |-> 2],
      [path |-> "a.pdf",    title |-> "Appendix E", page_count |-> 0] }

\* the source PDFs that exist on the filesystem
ExistingPdfs == {"a.pdf", "b.pdf"}

\* candidate default output names: 0 is <name>_with_appendices.pdf,
\* n >= 1 is <name>_with_appendices_<n>.pdf
DefaultNames == 0 .. MaxSuffix
ExplicitOut == MaxSuffix + 1
OutPaths == DefaultNames \cup {ExplicitOut}

\* Path.home() / "Documents", the directory of a default output path
HomeDocuments == "home/Documents"

NoFile == <<>>
OldContent == <<"old">>
ExportedContent == <<"word_document">>

\* Settings.max_pdf_size_mb when the key is not configured
DefaultMaxPdfSizeMb == 200

\* the last coordinator call: its arguments, the error it raised ("none" if
\* it returned), its return value, and what the environment did during it
NoCall == [op |-> "none", err |-> "none", ret |-> 0, args |-> <<>>,
           default_path |-> FALSE, out |-> 0 - 1, merged |-> FALSE,
           tracked |-> 0, unlink_ok |-> TRUE, rmtree_ok |-> TRUE,
           invoked |-> FALSE, export |-> "none", out_dir |-> "none"]

\* AppController.processing_worker before any run was started
NoWorker == [pc |-> "none"]

\* the directory of a document opened outside a processing run
WorkDir == "projects/report"

\* MainWindow.__init__, lines 40-41, and the list widget's own list: the
\* window's appendix_data is its own empty list (shares is whether it is the
\* very list object of the controller), displayed is the widget's copy
NewWindow == [shares |-> FALSE, appendix_data |-> <<>>, displayed |-> <<>>,
              current_document |-> "none"]

\* AppController.__init__, lines 139-145: no document, nothing asked of the
\* user and nothing reported to the user; waiting is whether the window's
\* thread is inside the wait of cancel_processing
NewController == [current_document |-> "none", errors |-> <<>>, asked |-> FALSE,
                  reply |-> "none", started |-> FALSE,
                  waiting |-> FALSE, cancel_reported |-> FALSE, reported |-> "none"]

\* the sections of the settings and the values AppSettings.__init__ gives
\* their keys (lines 24-60)
OriginalDefaults ==
    [ui |-> [theme |-> "light"],
     document |-> [auto_backup |-> TRUE, appendix_numbering_style |-> "alphabetical"]]
SettingsSections == DOMAIN OriginalDefaults

\* AppSettings.__init__ with no config file: settings is defaults.copy(), a
\* new top-level dict whose section dicts are the ones of defaults.  shared[s]
\* is whether settings[s] is the dict object defaults[s]; own[s] is the dict
\* of settings[s] when it is not
NewSettings == [defaults |-> OriginalDefaults, own |-> OriginalDefaults,
                shared |-> [sec \in SettingsSections |-> TRUE]]

NewGui == window = NewWindow /\ controller = NewController /\ settings = NewSettings

----------------------------------------------------------------------------
(* AppendixManager._calculate_start_page *)

FirstStartPage == 10

\* the +1 of line 169 forgotten
_calculate_start_page_overlapping(added) ==
    IF added = <<>> THEN FirstStartPage
    ELSE added[Len(added)].end_page

_calculate_start_page(added) ==
    IF added = <<>> THEN FirstStartPage
    ELSE added[Len(added)].end_page + 1

(* WordManager._add_appendix_com / _add_appendix_docx: a page break, the   *)
(* heading, then page_count - 1 times a page break and an empty paragraph  *)
RECURSIVE BlankPages(_)
BlankPages(n) ==
    IF n <= 0 THEN <<>>
    ELSE <<[kind |-> "break", text |-> ""], [kind |-> "para", text |-> ""]>> \o BlankPages(n - 1)

\* the loop of lines 239 and 264 run page_count times
add_appendix_section_extra_blank(doc, title, page_count) ==
    doc \o <<[kind |-> "break", text |-> ""], [kind |-> "heading", text |-> title]>>
        \o BlankPages(page_count)

add_appendix_section(doc, title, page_count) ==
    doc \o <<[kind |-> "break", text |-> ""], [kind |-> "heading", text |-> title]>>
        \o BlankPages(page_count - 1)

\* the -1 of line 66 forgotten
appendix_info_end_off_by_one(added, data) ==
    [title |-> data.title,
     pdf_path |-> data.path,
     page_count |-> data.page_count,
     start_page |-> _calculate_start_page(added),
     end_page |-> _calculate_start_page(added) + data.page_count]

(* AppendixManager.add_appendix, lines 61-67: the record that is tracked *)
appendix_info(added, data) ==
    [title |-> data.title,
     pdf_path |-> data.path,
     page_count |-> data.page_count,
     start_page |-> _calculate_start_page(added),
     end_page |-> _calculate_start_page(added) + data.page_count - 1]

(* the exception raised inside add_appendix's try block, "none" if none *)
add_appendix_inner(data, backend_ok) ==
    IF data.path = NoPath \/ data.path \notin ExistingPdfs THEN "AppendixError"
    ELSE IF data.page_count <= 0 THEN "AppendixError"
    ELSE IF ~backend_ok THEN "WordDocumentError"
    ELSE "none"

\* a handler that catches AppendixError only
add_appendix_wrap_own_errors_only(e) == e

(* add_appendix's handler, lines 74-76: every exception leaves as AppendixError *)
add_appendix_wrap(e) ==
    IF e = "none" THEN "none" ELSE "AppendixError"

\* the page count checked only after the backend was called
backend_invoked_before_count_check(data) ==
    data.path # NoPath /\ data.path \in ExistingPdfs

(* add_appendix, lines 43-57: whether the call reaches add_appendix_section *)
backend_invoked(data) ==
    data.path # NoPath /\ data.path \in ExistingPdfs /\ data.page_count > 0

\* the new record put before the records held
record_added_first(added, info) == <<info>> \o added

(* add_appendix, line 69: the new record goes to the end of the list *)
record_added(added, info) == Append(added, info)

(* the whole of add_appendix as a function of the state it reads; the *)
(* backend changes the document when it is invoked and succeeds       *)
add_appendix(added, doc, data, backend_ok) ==
    LET e == add_appendix_inner(data, backend_ok) IN
    [err |-> add_appendix_wrap(e),
     ret |-> e = "none",
     invoked |-> backend_invoked(data),
     added |-> IF e = "none" THEN record_added(added, appendix_info(added, data)) ELSE added,
     doc |-> IF backend_invoked(data) /\ backend_ok
             THEN add_appendix_section(doc, data.title, data.page_count) ELSE doc]

Sections(doc) == Cardinality({i \in 1 .. Len(doc) : doc[i].kind = "heading"})

----------------------------------------------------------------------------
Init ==
    /\ appendices_added = <<>>
    /\ temp_files = <<>>
    /\ temp_dir = 0
    /\ next_dir = 1
    /\ fs_dirs = {}
    /\ fs_temp = {}
    /\ fs_out = [p \in OutPaths |-> NoFile]
    /\ document = <<>>
    /\ last = NoCall
    /\ v_in = <<>>
    /\ v_out = [raised |-> FALSE, errors |-> <<>>, examined |-> 0]
    /\ max_pdf_size_mb = DefaultMaxPdfSizeMb
    /\ appendix_data = <<>>
    /\ numbering_style = "alphabetical"
    /\ worker = NoWorker
    /\ NewGui

(* AppendixManager.add_appendix; arg.ok tells whether the backend's *)
(* add_appendix_section succeeds or raises                          *)
AddAppendixStep(arg) ==
    /\ Sections(document) < MaxSections
    /\ LET r == add_appendix(appendices_added, document, arg.data, arg.ok) IN
        /\ appendices_added' = r.added
        /\ document' = r.doc
        /\ last' = [NoCall EXCEPT !.op = "add_appendix", !.err = r.err,
                                  !.ret = IF r.ret THEN 1 ELSE 0,
                                  !.invoked = r.invoked,
                                  !.args = <<arg>>]
    /\ UNCHANGED <<temp_files, temp_dir, next_dir, fs_dirs, fs_temp, fs_out>>
    /\ UNCHANGED <<validateVars, guiVars>>

AddAppendix(arg) == AddAppendixStep(arg) /\ UNCHANGED worker

\* the loop without its try/except: the first failing record ends the call
RECURSIVE add_multiple_appendices_uncaught(_, _, _)
add_multiple_appendices_uncaught(added, doc, args) ==
    IF args = <<>> THEN [err |-> "none", count |-> 0, added |-> added, doc |-> doc]
    ELSE LET r == add_appendix(added, doc, Head(args).data, Head(args).ok)
             rest == add_multiple_appendices_uncaught(r.added, r.doc, Tail(args))
         IN  IF r.err # "none"
             THEN [err |-> r.err, count |-> 0, added |-> r.added, doc |-> r.doc]
             ELSE [rest EXCEPT !.count = rest.count + 1]

\* the loop left at the first failing record (break for continue)
RECURSIVE add_multiple_appendices_break(_, _, _)
add_multiple_appendices_break(added, doc, args) ==
    IF args = <<>> THEN [err |-> "none", count |-> 0, added |-> added, doc |-> doc]
    ELSE LET r == add_appendix(added, doc, Head(args).data, Head(args).ok)
             rest == add_multiple_appendices_break(r.added, r.doc, Tail(args))
         IN  IF r.err # "none"
             THEN [err |-> "none", count |-> 0, added |-> r.added, doc |-> r.doc]
             ELSE [rest EXCEPT !.count = rest.count + 1]

(* AppendixManager.add_multiple_appendices: args is the list of the records *)
(* with, for each, whether the backend's insertion succeeds                *)
RECURSIVE add_multiple_appendices(_, _, _)
add_multiple_appendices(added, doc, args) ==
    IF args = <<>> THEN [err |-> "none", count |-> 0, added |-> added, doc |-> doc]
    ELSE LET r == add_appendix(added, doc, Head(args).data, Head(args).ok)
             rest == add_multiple_appendices(r.added, r.doc, Tail(args))
         IN  [rest EXCEPT !.count = rest.count + (IF r.err = "none" /\ r.ret THEN 1 ELSE 0)]

AddMultiple(args) ==
    /\ Sections(document) + Len(args) <= MaxSections
    /\ LET r == add_multiple_appendices(appendices_added, document, args) IN
        /\ appendices_added' = r.added
        /\ document' = r.doc
        /\ last' = [NoCall EXCEPT !.op = "add_multiple_appendices", !.err = r.err,
                                  !.ret = r.count,
                                  !.args = args]
    /\ UNCHANGED <<temp_files, temp_dir, next_dir, fs_dirs, fs_temp, fs_out>>
    /\ UNCHANGED <<validateVars, guiVars, worker>>

----------------------------------------------------------------------------
(* PDFHandler.merge_pdfs: the contents of the listed files, concatenated in *)
(* list order; PDFError when a listed file does not exist or the PDF       *)
(* library fails                                                           *)
RECURSIVE merge_contents(_)
merge_contents(contents) ==
    IF contents = <<>> THEN <<>>
    ELSE Head(contents) \o merge_contents(Tail(contents))

merge_pdfs(contents, library_ok) ==
    IF contents = <<>> \/ ~library_ok \/ \E i \in 1 .. Len(contents) : contents[i] = NoFile
    THEN [err |-> "PDFError", content |-> NoFile]
    ELSE [err |-> "none", content |-> merge_contents(contents)]

SourceContent(p) == IF p \in ExistingPdfs THEN <<p>> ELSE NoFile

\* the uniqueness loop of lines 145-147 left out
unique_output_path_no_loop(fs, counter) == counter

(* AppendixManager._replace_blank_pages, lines 141-147: the first free name *)
RECURSIVE unique_output_path(_, _)
unique_output_path(fs, counter) ==
    IF fs[counter] = NoFile THEN counter ELSE unique_output_path(fs, counter + 1)

\* the appendix PDFs listed last to first
pdf_list_reversed(exported, added) ==
    <<exported>> \o [i \in 1 .. Len(added) |-> SourceContent(added[Len(added) + 1 - i].pdf_path)]

(* AppendixManager._replace_blank_pages, line 155 *)
pdf_list(exported, added) ==
    <<exported>> \o [i \in 1 .. Len(added) |-> SourceContent(added[i].pdf_path)]

(* AppendixManager._replace_blank_pages, lines 149-158: what the call      *)
(* leaves at the output path once the exported PDF exists                  *)
replace_blank_pages(old, added, copy_ok, library_ok) ==
    LET m == merge_pdfs(pdf_list(ExportedContent, added), library_ok) IN
    IF ~copy_ok THEN [err |-> "PDFError", content |-> old, merged |-> FALSE]
    ELSE IF added = <<>> THEN [err |-> "none", content |-> ExportedContent, merged |-> FALSE]
    ELSE IF m.err # "none" THEN [err |-> "PDFError", content |-> ExportedContent, merged |-> TRUE]
    ELSE [err |-> "none", content |-> m.content, merged |-> TRUE]

\* line 123 without its test that the exported file exists
export_succeeded_unchecked(export, file_exists) == export # "raise"

(* _export_word_to_pdf, lines 121-124: the backend returned and the file   *)
(* it was to write exists                                                  *)
export_succeeded(export, file_exists) == export # "raise" /\ file_exists

\* the directory holding the source document: that of the run's document
\* in a processing run
document_directory == IF worker.pc = "none" THEN WorkDir ELSE worker.document_dir

\* a default output path beside the source document
default_output_dir_beside_document(source_dir) == source_dir

(* AppendixManager._replace_blank_pages, line 140: the directory of the    *)
(* default output path, whatever directory holds the source document      *)
default_output_dir(source_dir) == HomeDocuments

(* AppendixManager.create_final_pdf with _export_word_to_pdf and            *)
(* _replace_blank_pages.  export is what WordManager.export_as_pdf does:   *)
(* "ok" writes the file, "raise" raises, "nofile" returns without a file.  *)
(* copy_ok, library_ok, unlink_ok: whether shutil.copy2, the PDF library   *)
(* and Path.unlink succeed.                                                *)
CreateFinalPdfStep(use_default, export, copy_ok, library_ok, unlink_ok) ==
    /\ temp_dir = 0 => next_dir <= MaxTempDirs
    /\ Len(temp_files) < MaxTempFiles
    /\ use_default => \E n \in DefaultNames : fs_out[n] = NoFile
    /\ LET dir == IF temp_dir = 0 THEN next_dir ELSE temp_dir
           temp1 == IF export = "ok" THEN fs_temp \cup {dir} ELSE fs_temp
           exported == export_succeeded(export, dir \in temp1)
           out == IF use_default THEN unique_output_path(fs_out, 0) ELSE ExplicitOut
           r == replace_blank_pages(fs_out[out], appendices_added, copy_ok, library_ok)
           replaced == exported /\ r.err = "none"
           unlinked == replaced /\ unlink_ok
       IN
        /\ temp_dir' = dir
        /\ next_dir' = IF temp_dir = 0 THEN next_dir + 1 ELSE next_dir
        /\ fs_dirs' = fs_dirs \cup {dir}
        /\ fs_temp' = IF unlinked THEN temp1 \ {dir} ELSE temp1
        /\ temp_files' = IF exported THEN Append(temp_files, dir) ELSE temp_files
        /\ fs_out' = IF exported THEN [fs_out EXCEPT ![out] = r.content] ELSE fs_out
        /\ last' = [NoCall EXCEPT !.op = "create_final_pdf",
                                  !.default_path = use_default,
                                  !.err = IF unlinked THEN "none" ELSE "AppendixError",
                                  !.out = IF exported THEN out ELSE 0 - 1,
                                  !.export = export,
                                  !.out_dir = IF use_default THEN default_output_dir(document_directory)
                                              ELSE "given",
                                  !.merged = exported /\ r.merged]
    /\ UNCHANGED <<appendices_added, document>>
    /\ UNCHANGED <<validateVars, guiVars>>

CreateFinalPdf(use_default, export, copy_ok, library_ok, unlink_ok) ==
    CreateFinalPdfStep(use_default, export, copy_ok, library_ok, unlink_ok)
    /\ UNCHANGED worker

----------------------------------------------------------------------------
Range(seq) == {seq[i] : i \in 1 .. Len(seq)}

(* AppendixManager.cleanup_temp_files, lines 224-229: Path.unlink on each   *)
(* tracked temp file that exists; a failing unlink is logged and the file  *)
(* stays                                                                   *)
unlink_tracked(tracked, files, unlink_ok) ==
    IF unlink_ok THEN files \ Range(tracked) ELSE files

\* line 316 (temp_dir = None) forgotten
pdf_handler_cleanup_keeps_reference(dir, dirs, files, rmtree_ok) ==
    LET removed == dir # 0 /\ dir \in dirs /\ rmtree_ok IN
    [temp_dir |-> dir,
     dirs |-> IF removed THEN dirs \ {dir} ELSE dirs,
     files |-> IF removed THEN files \ {dir} ELSE files]

(* PDFHandler.cleanup_temp_files, lines 311-316: shutil.rmtree with         *)
(* ignore_errors on the temp directory, then temp_dir = None               *)
pdf_handler_cleanup(dir, dirs, files, rmtree_ok) ==
    LET removed == dir # 0 /\ dir \in dirs /\ rmtree_ok IN
    [temp_dir |-> 0,
     dirs |-> IF removed THEN dirs \ {dir} ELSE dirs,
     files |-> IF removed THEN files \ {dir} ELSE files]

\* the unlink of line 227 outside a try: its error leaves the call
unlink_handler_absent(e) == e

(* cleanup_temp_files, lines 228-229: the error of an unlink is logged *)
unlink_handler(e) == "none"

(* AppendixManager.cleanup_temp_files; an unlink raises when the file is   *)
(* there and the filesystem refuses the deletion                           *)
cleanup_temp_files(tracked, dir, dirs, files, unlink_ok, rmtree_ok) ==
    LET e == IF ~unlink_ok /\ Range(tracked) \cap files # {}
             THEN unlink_handler("OSError") ELSE "none"
        h == pdf_handler_cleanup(dir, dirs, unlink_tracked(tracked, files, unlink_ok), rmtree_ok)
    IN  IF e # "none"
        THEN [err |-> e, temp_files |-> tracked, temp_dir |-> dir, dirs |-> dirs, files |-> files]
        ELSE [err |-> "none", temp_files |-> <<>>, temp_dir |-> h.temp_dir,
              dirs |-> h.dirs, files |-> h.files]

CleanupTempFiles(unlink_ok, rmtree_ok) ==
    /\ LET c == cleanup_temp_files(temp_files, temp_dir, fs_dirs, fs_temp, unlink_ok, rmtree_ok) IN
        /\ temp_files' = c.temp_files
        /\ temp_dir' = c.temp_dir
        /\ fs_dirs' = c.dirs
        /\ fs_temp' = c.files
    /\ last' = [NoCall EXCEPT !.op = "cleanup_temp_files",
                              !.err = cleanup_temp_files(temp_files, temp_dir, fs_dirs, fs_temp,
                                                         unlink_ok, rmtree_ok).err,
                              !.tracked = Len(temp_files),
                              !.unlink_ok = unlink_ok,
                              !.rmtree_ok = rmtree_ok]
    /\ UNCHANGED <<appendices_added, next_dir, fs_out, document>>
    /\ UNCHANGED <<validateVars, guiVars, worker>>

\* reset without line 241: the records are kept
Reset_keeps_records(unlink_ok, rmtree_ok) ==
    /\ appendices_added' = appendices_added
    /\ LET c == cleanup_temp_files(temp_files, temp_dir, fs_dirs, fs_temp, unlink_ok, rmtree_ok) IN
        /\ temp_files' = c.temp_files
        /\ temp_dir' = c.temp_dir
        /\ fs_dirs' = c.dirs
        /\ fs_temp' = c.files
        /\ last' = [NoCall EXCEPT !.op = "reset", !.err = c.err]
    /\ UNCHANGED <<next_dir, fs_out, document>>
    /\ UNCHANGED <<validateVars, guiVars, worker>>

(* AppendixManager.reset *)
Reset(unlink_ok, rmtree_ok) ==
    /\ appendices_added' = <<>>
    /\ LET c == cleanup_temp_files(temp_files, temp_dir, fs_dirs, fs_temp, unlink_ok, rmtree_ok) IN
        /\ temp_files' = c.temp_files
        /\ temp_dir' = c.temp_dir
        /\ fs_dirs' = c.dirs
        /\ fs_temp' = c.files
        /\ last' = [NoCall EXCEPT !.op = "reset", !.err = c.err]
    /\ UNCHANGED <<next_dir, fs_out, document>>
    /\ UNCHANGED <<validateVars, guiVars, worker>>

----------------------------------------------------------------------------
ValidInputs == {d \in AppendixInputs : add_appendix_inner(d, TRUE) = "none"}
Args == {[data |-> d, ok |-> b] : d \in ValidInputs, b \in BOOLEAN}
            \cup {[data |-> d, ok |-> TRUE] : d \in AppendixInputs \ ValidInputs}
\* the records of a batch: two that succeed, one whose file is missing and
\* one whose insertion fails
BatchArgs ==
    {[data |-> d, ok |-> TRUE] :
        d \in {x \in AppendixInputs : x.path \in {"a.pdf", "b.pdf", "gone.pdf"} /\ x.page_count > 0}}
    \cup {[data |-> d, ok |-> FALSE] : d \in {x \in AppendixInputs : x.path = "b.pdf"}}
Batches == UNION {[1 .. n -> BatchArgs] : n \in 0 .. MaxBatch}

Next ==
    \/ \E arg \in Args : AddAppendix(arg)
    \/ \E args \in Batches : AddMultiple(args)
    \/ \E unlink_ok \in BOOLEAN, rmtree_ok \in BOOLEAN : Reset(unlink_ok, rmtree_ok)

Spec == Init /\ [][Next]_vars

----------------------------------------------------------------------------
(* The assembly of the final PDF: a session that holds the records of some  *)
(* successful add_appendix calls, on a filesystem where any of the output  *)
(* names may be taken already                                              *)
Sessions == UNION {[1 .. n -> {a \in Args : add_appendix_inner(a.data, a.ok) = "none"}] :
                      n \in 0 .. MaxMerged}

InitPdf ==
    /\ \E args \in Sessions :
          LET r == add_multiple_appendices(<<>>, <<>>, args) IN
             /\ appendices_added = r.added
             /\ document = r.doc
    /\ temp_files = <<>>
    /\ temp_dir = 0
    /\ next_dir = 1
    /\ fs_dirs = {}
    /\ fs_temp = {}
    /\ fs_out \in {f \in [OutPaths -> {NoFile, OldContent}] : f[ExplicitOut] = OldContent}
    /\ last = NoCall
    /\ v_in = <<>>
    /\ v_out = [raised |-> FALSE, errors |-> <<>>, examined |-> 0]
    /\ max_pdf_size_mb = DefaultMaxPdfSizeMb
    /\ appendix_data = <<>>
    /\ numbering_style = "alphabetical"
    /\ worker = NoWorker
    /\ NewGui

\* what the backends and the filesystem do during one create_final_pdf: at
\* most one step fails, and the steps after a failing one are not reached
Outcomes ==
    {o \in [export : {"ok", "raise", "nofile"}, copy_ok : BOOLEAN,
            library_ok : BOOLEAN, unlink_ok : BOOLEAN] :
        /\ o.export = "raise" => o.copy_ok
        /\ ~o.copy_ok => o.library_ok
        /\ ~o.library_ok => o.unlink_ok}

NextPdf ==
    \/ \E use_default \in BOOLEAN, o \in Outcomes :
          CreateFinalPdf(use_default, o.export, o.copy_ok, o.library_ok, o.unlink_ok)
    \/ \E unlink_ok \in BOOLEAN, rmtree_ok \in BOOLEAN : CleanupTempFiles(unlink_ok, rmtree_ok)
    \/ \E unlink_ok \in BOOLEAN, rmtree_ok \in BOOLEAN : Reset(unlink_ok, rmtree_ok)

SpecPdf == InitPdf /\ [][NextPdf]_vars
----------------------------------------------------------------------------
(* AppendixManager.validate_appendices over PDFHandler.validate_pdf_file *)

\* the files the candidates name: whether the path exists, whether the PDF
\* library can read it, and what it reads (sizes in MB)
PdfFiles ==
    [p \in {"ok.pdf", "empty.pdf", "mid.pdf", "limit.pdf", "big.pdf", "long.pdf",
            "locked.pdf", "corrupt.pdf", "gone.pdf"} |->
        CASE p = "ok.pdf"      -> [exists |-> TRUE,  readable |-> TRUE,  page_count |-> 5,    size_mb |-> 10,  encrypted |-> FALSE]
          [] p = "empty.pdf"   -> [exists |-> TRUE,  readable |-> TRUE,  page_count |-> 0,    size_mb |-> 1,   encrypted |-> FALSE]
          [] p = "mid.pdf"     -> [exists |-> TRUE,  readable |-> TRUE,  page_count |-> 5,    size_mb |-> 60,  encrypted |-> FALSE]
          [] p = "limit.pdf"   -> [exists |-> TRUE,  readable |-> TRUE,  page_count |-> 5,    size_mb |-> 200, encrypted |-> FALSE]
          [] p = "big.pdf"     -> [exists |-> TRUE,  readable |-> TRUE,  page_count |-> 5,    size_mb |-> 250, encrypted |-> FALSE]
          [] p = "long.pdf"    -> [exists |-> TRUE,  readable |-> TRUE,  page_count |-> 1001, size_mb |-> 10,  encrypted |-> FALSE]
          [] p = "locked.pdf"  -> [exists |-> TRUE,  readable |-> TRUE,  page_count |-> 5,    size_mb |-> 60,  encrypted |-> TRUE]
          [] p = "corrupt.pdf" -> [exists |-> TRUE,  readable |-> FALSE, page_count |-> 0,    size_mb |-> 10,  encrypted |-> FALSE]
          [] OTHER             -> [exists |-> FALSE, readable |-> FALSE, page_count |-> 0,    size_mb |-> 0,   encrypted |-> FALSE]]

LargeFileMb == 50
ManyPages == 1000

(* PDFHandler.validate_pdf_file, lines 82-91 *)
pdf_warnings(info) ==
    (IF info.size_mb > LargeFileMb THEN <<"Large file size">> ELSE <<>>)
    \o (IF info.page_count > ManyPages THEN <<"Many pages">> ELSE <<>>)
    \o (IF info.encrypted THEN <<"PDF is encrypted">> ELSE <<>>)

(* PDFHandler.validate_pdf_file: the dict it returns, or the error it raises *)
validate_pdf_file(pdf_path) ==
    LET f == PdfFiles[pdf_path] IN
    IF ~f.exists THEN [raised |-> "PDFNotFoundError"]
    ELSE IF ~f.readable THEN [raised |-> "PDFCorruptedError"]
    ELSE [raised |-> "none", valid |-> TRUE, page_count |-> f.page_count,
          size_mb |-> f.size_mb, warnings |-> pdf_warnings(f)]

Entry(i, msg) == [id |-> i, msg |-> msg]

RECURSIVE warning_entries(_, _)
warning_entries(i, warnings) ==
    IF warnings = <<>> THEN <<>>
    ELSE <<Entry(i, Head(warnings))>> \o warning_entries(i, Tail(warnings))

\* the size check of line 200 with >= for >
exceeds_limit_inclusive(size_mb, max_size_mb) == size_mb >= max_size_mb

(* validate_appendices, line 200 *)
exceeds_limit(size_mb, max_size_mb) == size_mb > max_size_mb

(* validate_appendices, lines 191-205: the entries of a record whose file *)
(* the backend validated                                                 *)
info_entries(i, pdf_info, max_size_mb) ==
    (IF ~pdf_info.valid THEN <<Entry(i, "Invalid PDF file")>> ELSE <<>>)
    \o (IF pdf_info.page_count <= 0 THEN <<Entry(i, "PDF has no pages")>> ELSE <<>>)
    \o (IF exceeds_limit(pdf_info.size_mb, max_size_mb) THEN <<Entry(i, "File too large")>> ELSE <<>>)
    \o warning_entries(i, pdf_info.warnings)

\* the loop body without its try/except: the backend's error leaves the call
validation_handler_absent(i, e) == [raised |-> TRUE, errors |-> <<>>]

(* validate_appendices, lines 207-208: the handler of the loop body's try *)
validation_handler(i, e) ==
    [raised |-> FALSE, errors |-> <<Entry(i, "PDF validation failed")>>]

(* validate_appendices, lines 175-208: one iteration of the loop *)
record_errors(i, appendix, max_size_mb) ==
    IF appendix.path = NoPath
    THEN [raised |-> FALSE, errors |-> <<Entry(i, "No PDF file specified")>>]
    ELSE IF ~PdfFiles[appendix.path].exists
    THEN [raised |-> FALSE, errors |-> <<Entry(i, "PDF file not found")>>]
    ELSE LET pdf_info == validate_pdf_file(appendix.path) IN
         IF pdf_info.raised # "none" THEN validation_handler(i, pdf_info.raised)
         ELSE [raised |-> FALSE, errors |-> info_entries(i, pdf_info, max_size_mb)]

(* AppendixManager.validate_appendices: the loop from record i on; examined *)
(* counts the records whose iteration was entered                          *)
RECURSIVE validate_appendices(_, _, _)
validate_appendices(appendices_data, i, max_size_mb) ==
    IF i > Len(appendices_data) THEN [raised |-> FALSE, errors |-> <<>>, examined |-> 0]
    ELSE LET r == record_errors(i, appendices_data[i], max_size_mb)
             rest == validate_appendices(appendices_data, i + 1, max_size_mb)
         IN  IF r.raised THEN [raised |-> TRUE, errors |-> r.errors, examined |-> 1]
             ELSE [raised |-> rest.raised, errors |-> r.errors \o rest.errors,
                   examined |-> rest.examined + 1]

MaxCandidates == 2    \* records passed to one validate_appendices call

\* candidate records: one per file, one without a path, and one whose own
\* page_count field disagrees with the file it names
Candidates ==
    {[path |-> p, page_count |-> PdfFiles[p].page_count] : p \in DOMAIN PdfFiles}
    \cup {[path |-> NoPath, page_count |-> 5], [path |-> "ok.pdf", page_count |-> 0]}
CandidateLists == UNION {[1 .. n -> Candidates] : n \in 0 .. MaxCandidates}
MaxSizes == {40, DefaultMaxPdfSizeMb}

ValidateAppendices(appendices_data) ==
    /\ v_in' = appendices_data
    /\ v_out' = validate_appendices(appendices_data, 1, max_pdf_size_mb)
    /\ last' = [NoCall EXCEPT !.op = "validate_appendices"]
    /\ UNCHANGED <<appendices_added, temp_files, temp_dir, next_dir, fs_dirs, fs_temp,
                   fs_out, document, max_pdf_size_mb>>
    /\ UNCHANGED <<guiVars, worker>>

(* Settings.set('pdf.max_file_size_mb', value) *)
SetMaxPdfSize(value) ==
    /\ max_pdf_size_mb' = value
    /\ last' = [NoCall EXCEPT !.op = "settings.set"]
    /\ UNCHANGED <<appendices_added, temp_files, temp_dir, next_dir, fs_dirs, fs_temp,
                   fs_out, document, v_in, v_out>>
    /\ UNCHANGED <<guiVars, worker>>

NextValidate ==
    \/ \E appendices_data \in CandidateLists : ValidateAppendices(appendices_data)
    \/ \E value \in MaxSizes : SetMaxPdfSize(value)

SpecValidate == Init /\ [][NextValidate]_vars

----------------------------------------------------------------------------
(* The coordinator with every one of its operations in one session *)

RECURSIVE sum_page_count(_)
sum_page_count(added) ==
    IF added = <<>> THEN 0 ELSE Head(added).page_count + sum_page_count(Tail(added))

\* a summary whose total is the number of the last page
get_processing_summary_last_page(added) ==
    [appendices_count |-> Len(added),
     total_pages |-> IF added = <<>> THEN 0 ELSE added[Len(added)].end_page,
     appendices_info |-> added]

(* AppendixManager.get_processing_summary, lines 212-220 *)
get_processing_summary(added) ==
    [appendices_count |-> Len(added),
     total_pages |-> sum_page_count(added),
     appendices_info |-> added]

\* the call of get_processing_summary; last.ret is total_pages and
\* last.tracked is appendices_count of the summary returned
GetProcessingSummary ==
    /\ last' = [NoCall EXCEPT !.op = "get_processing_summary",
                              !.ret = get_processing_summary(appendices_added).total_pages,
                              !.tracked = get_processing_summary(appendices_added).appendices_count]
    /\ UNCHANGED <<appendices_added, temp_files, temp_dir, next_dir, fs_dirs, fs_temp,
                   fs_out, document>>
    /\ UNCHANGED <<validateVars, guiVars, worker>>

\* the candidate lists handed to validate_appendices in such a session
FrameLists == {l \in CandidateLists : Len(l) = 1 /\ l[1].path = "corrupt.pdf"}

\* in such a session the filesystem refuses nothing: only the export and the
\* PDF library may fail
FrameOutcomes == {o \in Outcomes : o.copy_ok /\ o.unlink_ok}

NextFrame ==
    \/ \E arg \in Args : AddAppendix(arg)
    \/ \E o \in FrameOutcomes :
          CreateFinalPdf(FALSE, o.export, o.copy_ok, o.library_ok, o.unlink_ok)
    \/ \E appendices_data \in FrameLists : ValidateAppendices(appendices_data)
    \/ GetProcessingSummary
    \/ CleanupTempFiles(TRUE, TRUE)
    \/ Reset(TRUE, TRUE)

SpecFrame == Init /\ [][NextFrame]_vars

----------------------------------------------------------------------------
(* AppController._process_pdf_files and _generate_appendix_title *)

MaxAppendices == 26   \* entries of appendix_data
MaxFiles == 2         \* files dropped in one batch
MaxInvalid == 2       \* entries of appendix_data whose file failed validation

OrdA == 65
Alphabet == <<"A", "B", "C", "D", "E", "F", "G", "H", "I", "J", "K", "L", "M",
              "N", "O", "P", "Q", "R", "S", "T", "U", "V", "W", "X", "Y", "Z">>
Digits == <<"0", "1", "2", "3", "4", "5", "6", "7", "8", "9">>

\* Python's chr on the code points of the uppercase letters
chr(c) == Alphabet[c - OrdA + 1]

\* Python's str on a non-negative int
RECURSIVE str(_)
str(n) == IF n < 10 THEN Digits[n + 1] ELSE str(n \div 10) \o Digits[(n % 10) + 1]

(* AppController._generate_appendix_title *)
_generate_appendix_title(style, index) ==
    IF style = "numeric" THEN "Appendix " \o str(index + 1)
    ELSE IF index < 26 THEN "Appendix " \o chr(OrdA + index)
    ELSE "Appendix " \o chr(OrdA + (index \div 26) - 1) \o chr(OrdA + (index % 26))

\* the index counted within the batch only
title_index_within_batch(data, processed_files) == Len(processed_files)

(* _process_pdf_files, lines 225 and 241: the index handed to the generator *)
title_index(data, processed_files) == Len(data) + Len(processed_files)

(* _process_pdf_files, lines 213-248: the entries made for file_paths *)
RECURSIVE process_files(_, _, _, _)
process_files(data, style, file_paths, processed_files) ==
    IF file_paths = <<>> THEN processed_files
    ELSE LET file_path == Head(file_paths)
             pdf_info == validate_pdf_file(file_path)
             title == _generate_appendix_title(style, title_index(data, processed_files))
             entry == IF pdf_info.raised = "none"
                      THEN [path |-> file_path, title |-> title,
                            page_count |-> pdf_info.page_count, valid |-> pdf_info.valid]
                      ELSE [path |-> file_path, title |-> title,
                            page_count |-> 0, valid |-> FALSE]
         IN  process_files(data, style, Tail(file_paths), Append(processed_files, entry))

Invalid(data) == Cardinality({i \in 1 .. Len(data) : ~data[i].valid})

DroppedFiles == {"ok.pdf", "corrupt.pdf"}
FileBatches == UNION {[1 .. n -> DroppedFiles] : n \in 1 .. MaxFiles}

(* MainWindow.set_appendix_data, lines 786-789: the window takes the list   *)
(* object it is handed, and refresh_appendix_list copies it to the widget *)
window_set_appendix_data(w, data) ==
    [w EXCEPT !.shares = TRUE, !.appendix_data = <<>>, !.displayed = data]

(* AppController._process_pdf_files *)
ProcessPdfFiles(file_paths) ==
    /\ Len(appendix_data) + Len(file_paths) <= MaxAppendices
    /\ appendix_data' = appendix_data \o process_files(appendix_data, numbering_style, file_paths, <<>>)
    /\ Invalid(appendix_data') <= MaxInvalid
    /\ window' = window_set_appendix_data(window, appendix_data')
    /\ last' = [NoCall EXCEPT !.op = "_process_pdf_files", !.ret = Len(file_paths)]
    /\ UNCHANGED <<appendices_added, temp_files, temp_dir, next_dir, fs_dirs, fs_temp,
                   fs_out, document, numbering_style, controller, settings>>
    /\ UNCHANGED <<validateVars, worker>>

\* a session of the window with either numbering selected
InitTitles ==
    /\ appendices_added = <<>>
    /\ temp_files = <<>>
    /\ temp_dir = 0
    /\ next_dir = 1
    /\ fs_dirs = {}
    /\ fs_temp = {}
    /\ fs_out = [p \in OutPaths |-> NoFile]
    /\ document = <<>>
    /\ last = NoCall
    /\ v_in = <<>>
    /\ v_out = [raised |-> FALSE, errors |-> <<>>, examined |-> 0]
    /\ max_pdf_size_mb = DefaultMaxPdfSizeMb
    /\ appendix_data = <<>>
    /\ numbering_style \in {"alphabetical", "numeric"}
    /\ worker = NoWorker
    /\ NewGui

NextTitles == \E file_paths \in FileBatches : ProcessPdfFiles(file_paths)

SpecTitles == InitTitles /\ [][NextTitles]_vars

----------------------------------------------------------------------------
(* ProcessingWorker.process, run on its own thread with managers of its own, *)
(* and ProcessingWorker.stop, called from the window's thread               *)

MaxRun == 2           \* entries of the appendix_data a run is started with

\* directories a source document may be in
DocumentDirs == {HomeDocuments, WorkDir}

RunLists == UNION {[1 .. n -> BatchArgs] : n \in 0 .. MaxRun}

\* the message of the exception a failing step raises
StepError(step) ==
    CASE step = "open_document"   -> "Failed to open document"
      [] step = "create_backup"   -> "Failed to create backup"
      [] step = "add_appendix"    -> "Failed to add appendix"
      [] step = "save_document"   -> "Failed to save document"
      [] OTHER                    -> "Failed to create final PDF"

\* the handler emitting a fixed text
process_handler_without_text(w, step) ==
    [w EXCEPT !.pc = "ended", !.failure = step, !.failed = "Processing failed"]

(* process, lines 116-118: the handler of the whole run *)
process_handler(w, step) ==
    [w EXCEPT !.pc = "ended", !.failure = step,
              !.failed = "Processing failed: " \o StepError(step)]

Began(w, step) == [w EXCEPT !.steps = Append(w.steps, step)]

\* progress_updated.emit(message, percent): the percentages emitted so far
Emitted(w, percent) == [w EXCEPT !.progress = Append(w.progress, percent)]

\* the percentage of the loop counted from 0 to 100
loop_progress_of_whole(i, total_appendices) == (i * 100) \div total_appendices

(* process, line 78: the percentage emitted before entry i (from 0) is added *)
loop_progress(i, total_appendices) == 30 + ((i * 50) \div total_appendices)

\* a backup made whatever the setting
backup_wanted_always(w) == TRUE

(* process, line 68: the backup is made when auto-backup is enabled *)
backup_wanted(w) == w.auto_backup

\* the state of the managers a run constructs (lines 49-51) and of the
\* worker the controller makes for it (lines 36-41, 376-380)
InitWorker ==
    /\ appendices_added = <<>>
    /\ temp_files = <<>>
    /\ temp_dir = 0
    /\ next_dir = 1
    /\ fs_dirs = {}
    /\ fs_temp = {}
    /\ fs_out = [p \in OutPaths |-> NoFile]
    /\ document = <<>>
    /\ last = NoCall
    /\ v_in = <<>>
    /\ v_out = [raised |-> FALSE, errors |-> <<>>, examined |-> 0]
    /\ max_pdf_size_mb = DefaultMaxPdfSizeMb
    /\ appendix_data = <<>>
    /\ numbering_style = "alphabetical"
    /\ \E data \in RunLists, dir \in DocumentDirs, backup \in BOOLEAN :
          worker = [pc |-> "open", should_stop |-> FALSE, i |-> 1,
                    appendix_data |-> data, document_dir |-> dir,
                    auto_backup |-> backup, steps |-> <<>>,
                    failure |-> "none", failed |-> "none",
                    completed |-> FALSE, output_pdf |-> 0 - 1,
                    progress |-> <<>>, cancelled |-> FALSE]
    /\ NewGui

WorkerOnly == UNCHANGED <<coordVars, validateVars, guiVars>>

(* lines 46-62: the first progress signals, then open or select the document *)
WorkerOpen(outcome) ==
    /\ worker.pc = "open"
    /\ LET w == Began(Emitted(Emitted(worker, 0), 10), "open_document") IN
       worker' = IF outcome = "ok" THEN [w EXCEPT !.pc = "backup"]
                 ELSE process_handler(w, "open_document")
    /\ WorkerOnly

(* lines 64-70: the backup, when enabled, between its progress signals *)
WorkerBackup(ok) ==
    /\ worker.pc = "backup"
    /\ LET w == Emitted(worker, 20) IN
       worker' = IF ~backup_wanted(worker) THEN [Emitted(w, 30) EXCEPT !.pc = "check"]
                 ELSE IF ok
                 THEN [Emitted(Began(w, "create_backup"), 30) EXCEPT !.pc = "check"]
                 ELSE process_handler(Began(w, "create_backup"), "create_backup")
    /\ WorkerOnly

(* lines 75-77: the head of the loop and its test of the flag *)
WorkerCheck ==
    /\ worker.pc = "check"
    /\ worker' = IF worker.i > Len(worker.appendix_data) \/ worker.should_stop
                 THEN [worker EXCEPT !.pc = "after_loop"]
                 ELSE [worker EXCEPT !.pc = "add"]
    /\ WorkerOnly

(* lines 79-83: the progress signal, then the call of add_appendix begins *)
WorkerBeginAdd ==
    /\ worker.pc = "add"
    /\ worker' = [Began(Emitted(worker, loop_progress(worker.i - 1, Len(worker.appendix_data))),
                         "add_appendix") EXCEPT !.pc = "in_add"]
    /\ WorkerOnly

(* line 83: add_appendix runs to its end *)
WorkerEndAdd ==
    /\ worker.pc = "in_add"
    /\ AddAppendixStep(worker.appendix_data[worker.i])
    /\ worker' = IF last'.err = "none"
                 THEN [worker EXCEPT !.pc = "check", !.i = worker.i + 1]
                 ELSE process_handler(worker, "add_appendix")

(* lines 85-86: the test of the flag after the loop *)
WorkerAfterLoop ==
    /\ worker.pc = "after_loop"
    /\ worker' = IF worker.should_stop
                 THEN [worker EXCEPT !.pc = "ended", !.cancelled = TRUE]
                 ELSE [worker EXCEPT !.pc = "save"]
    /\ WorkerOnly

(* lines 88-91: save_document begins *)
WorkerBeginSave ==
    /\ worker.pc = "save"
    /\ worker' = [Began(Emitted(worker, 90), "save_document") EXCEPT !.pc = "in_save"]
    /\ WorkerOnly

(* line 91: save_document runs to its end *)
WorkerEndSave(ok) ==
    /\ worker.pc = "in_save"
    /\ worker' = IF ok THEN [worker EXCEPT !.pc = "export"]
                 ELSE process_handler(worker, "save_document")
    /\ WorkerOnly

(* lines 93-97: create_final_pdf begins *)
WorkerBeginExport ==
    /\ worker.pc = "export"
    /\ worker' = [Began(Emitted(worker, 95), "create_final_pdf") EXCEPT !.pc = "in_export"]
    /\ WorkerOnly

(* lines 96-114: create_final_pdf runs to its end; its failure is caught, *)
(* the result is prepared and processing_completed is emitted            *)
WorkerEndExport(o) ==
    /\ worker.pc = "in_export"
    /\ CreateFinalPdfStep(TRUE, o.export, o.copy_ok, o.library_ok, o.unlink_ok)
    /\ worker' = [Emitted(worker, 100) EXCEPT !.pc = "ended",
                                !.failure = IF last'.err = "none" THEN "none"
                                            ELSE "create_final_pdf",
                                !.output_pdf = IF last'.err = "none" THEN last'.out
                                               ELSE 0 - 1,
                                !.completed = TRUE]

(* ProcessingWorker.stop *)
WorkerStop ==
    /\ worker.pc \notin {"none", "ended"}
    /\ ~worker.should_stop
    /\ worker' = [worker EXCEPT !.should_stop = TRUE]
    /\ WorkerOnly

\* the steps of process()
WorkerSteps ==
    \/ \E outcome \in {"ok", "false", "raise"} : WorkerOpen(outcome)
    \/ \E ok \in BOOLEAN : WorkerBackup(ok)
    \/ WorkerCheck
    \/ WorkerBeginAdd
    \/ WorkerEndAdd
    \/ WorkerAfterLoop
    \/ WorkerBeginSave
    \/ \E ok \in BOOLEAN : WorkerEndSave(ok)
    \/ WorkerBeginExport
    \/ \E o \in Outcomes : WorkerEndExport(o)

NextWorker ==
    \/ WorkerSteps
    \/ WorkerStop

SpecWorker == InitWorker /\ [][NextWorker]_vars

----------------------------------------------------------------------------
(* The window's thread during a run: AppController.cancel_processing and    *)
(* the slots the worker's signals are queued to (start_processing, lines   *)
(* 384-395).  A signal the worker emitted is delivered when the window's   *)
(* thread is back in its event loop.                                       *)

(* cancel_processing, lines 453-458: stop() sets the flag, then the        *)
(* window's thread waits for the worker's thread, 3 seconds at most; the   *)
(* worker goes on meanwhile                                                *)
CancelProcessing ==
    /\ worker.pc # "none"
    /\ controller.reported = "none"
    /\ ~controller.waiting
    /\ ~controller.cancel_reported
    /\ worker' = [worker EXCEPT !.should_stop = TRUE]
    /\ controller' = [controller EXCEPT !.waiting = TRUE]
    /\ UNCHANGED <<coordVars, validateVars, appendix_data, numbering_style, window, settings>>

(* cancel_processing, lines 460-467: the wait is over, because the worker  *)
(* ended or because the 3 seconds passed; the dialog is closed and         *)
(* "Processing was cancelled by user." is shown                            *)
CancelReported ==
    /\ controller.waiting
    /\ controller' = [controller EXCEPT !.waiting = FALSE, !.cancel_reported = TRUE]
    /\ UNCHANGED <<coordVars, validateVars, appendix_data, numbering_style, window, settings,
                   worker>>

(* on_processing_completed, lines 417-438, run for the queued signal *)
OnProcessingCompleted ==
    /\ worker.pc = "ended"
    /\ worker.completed
    /\ controller.reported = "none"
    /\ ~controller.waiting
    /\ controller' = [controller EXCEPT !.reported = "completed"]
    /\ UNCHANGED <<coordVars, validateVars, appendix_data, numbering_style, window, settings,
                   worker>>

(* on_processing_failed, lines 440-449, run for the queued signal *)
OnProcessingFailed ==
    /\ worker.pc = "ended"
    /\ worker.failed # "none"
    /\ controller.reported = "none"
    /\ ~controller.waiting
    /\ controller' = [controller EXCEPT !.reported = "failed"]
    /\ UNCHANGED <<coordVars, validateVars, appendix_data, numbering_style, window, settings,
                   worker>>

NextRun ==
    \/ WorkerSteps
    \/ CancelProcessing
    \/ CancelReported
    \/ OnProcessingCompleted
    \/ OnProcessingFailed

SpecRun == InitWorker /\ [][NextRun]_vars

----------------------------------------------------------------------------
(* AppSettings: get, set and reset_to_defaults over the dicts of defaults   *)
(* and settings.  dict.copy() is shallow: it makes a new top-level dict    *)
(* whose values are the same section dicts.                                *)

\* the values a key may be given
SettingValues ==
    [ui |-> [theme |-> {"light", "dark"}],
     document |-> [auto_backup |-> BOOLEAN,
                   appendix_numbering_style |-> {"alphabetical", "numeric"}]]

SectionDicts(sec) ==
    IF sec = "ui" THEN [theme : SettingValues.ui.theme]
    ELSE [auto_backup : SettingValues.document.auto_backup,
          appendix_numbering_style : SettingValues.document.appendix_numbering_style]

\* the key paths section.key of the settings
KeyPaths ==
    {p \in SettingsSections \X {"theme", "auto_backup", "appendix_numbering_style"} :
        p[2] \in DOMAIN OriginalDefaults[p[1]]}

(* AppSettings.get, lines 101-111, for the key path sec.key *)
settings_get(st, sec, key) ==
    IF st.shared[sec] THEN st.defaults[sec][key] ELSE st.own[sec][key]

(* AppSettings.set, lines 113-123: the value is stored in the section dict *)
(* settings refers to, which is the dict of defaults when it is shared     *)
settings_set(st, sec, key, value) ==
    IF st.shared[sec]
    THEN [st EXCEPT !.defaults[sec][key] = value]
    ELSE [st EXCEPT !.own[sec][key] = value]

(* AppSettings.reset_to_defaults, lines 125-128: settings = defaults.copy() *)
reset_to_defaults(st) ==
    [st EXCEPT !.shared = [sec \in SettingsSections |-> TRUE]]

(* _load_settings and _merge_settings, lines 66-91: a section the config   *)
(* file holds is merged into a copy of the section of defaults, a section  *)
(* it does not hold stays the dict of defaults                             *)
_load_settings(file) ==
    [defaults |-> OriginalDefaults,
     own |-> [sec \in SettingsSections |->
                 IF sec \in DOMAIN file THEN file[sec] ELSE OriginalDefaults[sec]],
     shared |-> [sec \in SettingsSections |-> sec \notin DOMAIN file]]

\* the config files: any subset of the sections, each with any values
ConfigFiles ==
    UNION {{f \in [secs -> SectionDicts("ui") \cup SectionDicts("document")] :
               \A sec \in secs : f[sec] \in SectionDicts(sec)} :
           secs \in SUBSET SettingsSections}

SettingsOnly ==
    UNCHANGED <<appendices_added, temp_files, temp_dir, next_dir, fs_dirs, fs_temp,
                fs_out, document, validateVars, appendix_data, numbering_style, worker,
                window, controller>>

SettingsSet(sec, key, value) ==
    /\ settings' = settings_set(settings, sec, key, value)
    /\ last' = [NoCall EXCEPT !.op = "settings.set"]
    /\ SettingsOnly

SettingsReset ==
    /\ settings' = reset_to_defaults(settings)
    /\ last' = [NoCall EXCEPT !.op = "reset_to_defaults"]
    /\ SettingsOnly

InitSettings ==
    /\ appendices_added = <<>>
    /\ temp_files = <<>>
    /\ temp_dir = 0
    /\ next_dir = 1
    /\ fs_dirs = {}
    /\ fs_temp = {}
    /\ fs_out = [p \in OutPaths |-> NoFile]
    /\ document = <<>>
    /\ last = NoCall
    /\ v_in = <<>>
    /\ v_out = [raised |-> FALSE, errors |-> <<>>, examined |-> 0]
    /\ max_pdf_size_mb = DefaultMaxPdfSizeMb
    /\ appendix_data = <<>>
    /\ numbering_style = "alphabetical"
    /\ worker = NoWorker
    /\ window = NewWindow
    /\ controller = NewController
    /\ \E file \in ConfigFiles : settings = _load_settings(file)

NextSettings ==
    \/ \E p \in KeyPaths : \E value \in SettingValues[p[1]][p[2]] :
          SettingsSet(p[1], p[2], value)
    \/ SettingsReset

SpecSettings == InitSettings /\ [][NextSettings]_vars

----------------------------------------------------------------------------
(* The window and the controller: the handlers of MainWindow that change   *)
(* the window's appendix list, with the controller's slots they reach      *)
(* through signals, and AppController.on_process_requested.  The window's  *)
(* list is the controller's own list object once set_appendix_data handed  *)
(* it over (window.shares); the list widget shows a copy (window.displayed) *)

MaxList == 2          \* entries of the appendix lists in a session of the window

\* MainWindow.appendix_data: the list the window's handlers read and change
WindowData == IF window.shares THEN appendix_data ELSE window.appendix_data

\* list.pop(k - 1)
RemoveAt(data, k) ==
    [i \in 1 .. Len(data) - 1 |-> IF i < k THEN data[i] ELSE data[i + 1]]

\* data[a - 1], data[b - 1] = data[b - 1], data[a - 1]
Swap(data, a, b) ==
    [i \in 1 .. Len(data) |-> IF i = a THEN data[b] ELSE IF i = b THEN data[a] ELSE data[i]]

\* item = data.pop(from - 1); data.insert(to - 1, item)
MoveItem(data, from, to) ==
    LET rest == RemoveAt(data, from) IN
    [i \in 1 .. Len(data) |-> IF i < to THEN rest[i] ELSE IF i = to THEN data[from]
                                ELSE rest[i - 1]]

(* on_appendix_removed, lines 298-300: every entry is titled anew by its index *)
regenerate_titles(data, style) ==
    [i \in 1 .. Len(data) |-> [data[i] EXCEPT !.title = _generate_appendix_title(style, i - 1)]]

(* AppController.on_appendix_removed, lines 293-305, on the list the       *)
(* controller holds when the signal arrives                                *)
on_appendix_removed(data, index, style) ==
    IF 0 <= index /\ index < Len(data)
    THEN [popped |-> TRUE, data |-> regenerate_titles(RemoveAt(data, index + 1), style)]
    ELSE [popped |-> FALSE, data |-> data]

\* the change of the window's list in place to the value data, followed by
\* refresh_appendix_list: the controller's list changes with it when shared
WindowListBecomes(data) ==
    /\ appendix_data' = IF window.shares THEN data ELSE appendix_data
    /\ window' = [window EXCEPT !.appendix_data = IF window.shares THEN <<>> ELSE data,
                                !.displayed = data]

GuiOnly ==
    UNCHANGED <<appendices_added, temp_files, temp_dir, next_dir, fs_dirs, fs_temp,
                fs_out, document, validateVars>>

(* MainWindow.on_document_selected, lines 403-416, and the controller's    *)
(* on_document_selected, lines 176-193, reached by the signal              *)
SelectDocument ==
    /\ window' = [window EXCEPT !.current_document = "report.docx"]
    /\ controller' = [controller EXCEPT !.current_document = "report.docx"]
    /\ last' = [NoCall EXCEPT !.op = "on_document_selected"]
    /\ GuiOnly
    /\ UNCHANGED <<appendix_data, numbering_style, settings, worker>>

(* add_pdf_files to _process_pdf_files, in a session of the window *)
AddFiles(file_paths) ==
    /\ Len(appendix_data) + Len(file_paths) <= MaxList
    /\ ProcessPdfFiles(file_paths)

(* MainWindow.move_appendix_up, lines 456-468, on the selected row *)
MoveUp(index) ==
    /\ index > 0
    /\ index < Len(WindowData)
    /\ WindowListBecomes(Swap(WindowData, index + 1, index))
    /\ last' = [NoCall EXCEPT !.op = "move_appendix_up", !.ret = index]
    /\ GuiOnly
    /\ UNCHANGED <<numbering_style, controller, settings, worker>>

(* MainWindow.move_appendix_down, lines 470-482, on the selected row *)
MoveDown(index) ==
    /\ index >= 0
    /\ index < Len(WindowData) - 1
    /\ WindowListBecomes(Swap(WindowData, index + 1, index + 2))
    /\ last' = [NoCall EXCEPT !.op = "move_appendix_down", !.ret = index]
    /\ GuiOnly
    /\ UNCHANGED <<numbering_style, controller, settings, worker>>

(* MainWindow.remove_appendix, lines 484-512, on the selected row, with    *)
(* the answer to its question, and the controller's on_appendix_removed    *)
(* reached by the signal (which ends in set_appendix_data)                 *)
RemoveAppendix(index, reply) ==
    /\ 0 <= index
    /\ index < Len(WindowData)
    /\ last' = [NoCall EXCEPT !.op = "remove_appendix", !.ret = index, !.args = <<reply>>]
    /\ IF reply # "Yes"
       THEN UNCHANGED <<appendix_data, window>>
       ELSE LET popped == RemoveAt(WindowData, index + 1)
                held == IF window.shares THEN popped ELSE appendix_data
                r == on_appendix_removed(held, index, numbering_style)
            IN  IF r.popped
                THEN /\ appendix_data' = r.data
                     /\ window' = window_set_appendix_data(window, r.data)
                ELSE /\ appendix_data' = held
                     /\ window' = [window EXCEPT
                                      !.appendix_data = IF window.shares THEN <<>> ELSE popped,
                                      !.displayed = popped]
    /\ GuiOnly
    /\ UNCHANGED <<numbering_style, controller, settings, worker>>

(* MainWindow.edit_appendix, lines 514-527, with the dialog accepted and   *)
(* the title changed in it                                                 *)
EditAppendix(index) ==
    /\ 0 <= index
    /\ index < Len(WindowData)
    /\ WindowListBecomes([WindowData EXCEPT ![index + 1].title = "Edited"])
    /\ last' = [NoCall EXCEPT !.op = "edit_appendix", !.ret = index]
    /\ GuiOnly
    /\ UNCHANGED <<numbering_style, controller, settings, worker>>

(* MainWindow.clear_project, lines 709-726 *)
ClearProject ==
    /\ appendix_data' = IF window.shares THEN <<>> ELSE appendix_data
    /\ window' = [window EXCEPT !.appendix_data = <<>>, !.displayed = <<>>,
                                !.current_document = "none"]
    /\ last' = [NoCall EXCEPT !.op = "clear_project"]
    /\ GuiOnly
    /\ UNCHANGED <<numbering_style, controller, settings, worker>>

\* the project files a session may open
Projects ==
    [document : {"none", "saved.docx"},
     appendices : {<<>>, <<[path |-> "ok.pdf", title |-> "Appendix A",
                            page_count |-> 5, valid |-> TRUE]>>}]

(* MainWindow.load_project, lines 728-746: the window takes the list read  *)
(* from the file, a list of its own                                        *)
LoadProject(project) ==
    /\ window' = [window EXCEPT !.shares = FALSE,
                                !.appendix_data = project.appendices,
                                !.displayed = project.appendices,
                                !.current_document = project.document]
    /\ last' = [NoCall EXCEPT !.op = "load_project"]
    /\ GuiOnly
    /\ UNCHANGED <<appendix_data, numbering_style, controller, settings, worker>>

(* AppendixListWidget.dropEvent, lines 307-332: the widget reorders its    *)
(* own copy; items_reordered is connected to nothing                      *)
DropEvent(source_index, dest_index) ==
    /\ source_index # dest_index
    /\ 0 <= source_index /\ source_index < Len(window.displayed)
    /\ 0 <= dest_index /\ dest_index < Len(window.displayed)
    /\ window' = [window EXCEPT
                     !.displayed = MoveItem(window.displayed, source_index + 1, dest_index + 1)]
    /\ last' = [NoCall EXCEPT !.op = "dropEvent", !.ret = dest_index]
    /\ GuiOnly
    /\ UNCHANGED <<appendix_data, numbering_style, controller, settings, worker>>

(* MainWindow.on_numbering_changed, lines 568-573, for the other entry of  *)
(* the combo box                                                           *)
OnNumberingChanged(style) ==
    /\ style # numbering_style
    /\ numbering_style' = style
    /\ settings' = settings_set(settings, "document", "appendix_numbering_style", style)
    /\ window' = [window EXCEPT !.displayed = WindowData]
    /\ last' = [NoCall EXCEPT !.op = "on_numbering_changed"]
    /\ GuiOnly
    /\ UNCHANGED <<appendix_data, controller, worker>>

\* the size the entry recorded for its file
entry_size_mb(appendix) == IF appendix.valid THEN PdfFiles[appendix.path].size_mb ELSE 0

(* AppController._validate_appendices, lines 338-361: the errors of one entry *)
entry_errors(appendix, max_size) ==
    (IF ~PdfFiles[appendix.path].exists THEN <<[title |-> appendix.title, msg |-> "File not found"]>>
     ELSE <<>>)
    \o (IF appendix.page_count <= 0
        THEN <<[title |-> appendix.title, msg |-> "Invalid page count"]>> ELSE <<>>)
    \o (IF entry_size_mb(appendix) > max_size
        THEN <<[title |-> appendix.title, msg |-> "File too large"]>> ELSE <<>>)
    \o (IF ~appendix.valid
        THEN <<[title |-> appendix.title, msg |-> "Processing error"]>> ELSE <<>>)

(* AppController._validate_appendices *)
RECURSIVE _validate_appendices(_, _)
_validate_appendices(data, max_size) ==
    IF data = <<>> THEN <<>>
    ELSE entry_errors(Head(data), max_size) \o _validate_appendices(Tail(data), max_size)

\* a run started whatever the answer
start_allowed_whatever_the_reply(errors, reply) == TRUE

(* on_process_requested, lines 318-333: with errors the run starts only on Yes *)
start_allowed(errors, reply) == errors = <<>> \/ reply = "Yes"

(* start_processing, lines 376-380: the worker made for the run *)
start_processing(document_info, data, st) ==
    [pc |-> "open", should_stop |-> FALSE, i |-> 1, appendix_data |-> data,
     document_dir |-> WorkDir,
     auto_backup |-> settings_get(st, "document", "auto_backup"),
     steps |-> <<>>, failure |-> "none", failed |-> "none",
     completed |-> FALSE, output_pdf |-> 0 - 1,
     progress |-> <<>>, cancelled |-> FALSE]

(* MainWindow.process_appendices, lines 544-566, with the answer to its    *)
(* question, and AppController.on_process_requested, lines 307-336,        *)
(* reached by the signal, with the answer to "Continue anyway?"            *)
ProcessAppendices(confirm, reply) ==
    LET requested == /\ window.current_document # "none"
                     /\ WindowData # <<>>
                     /\ confirm = "Yes"
        checked == /\ requested
                   /\ controller.current_document # "none"
                   /\ appendix_data # <<>>
        errors == IF checked THEN _validate_appendices(appendix_data, max_pdf_size_mb) ELSE <<>>
        started == checked /\ start_allowed(errors, reply)
    IN  /\ controller' = [controller EXCEPT !.errors = errors,
                                            !.asked = errors # <<>>,
                                            !.reply = IF errors # <<>> THEN reply ELSE "none",
                                            !.started = started]
        /\ worker' = IF started
                     THEN start_processing(controller.current_document, appendix_data, settings)
                     ELSE worker
        /\ last' = [NoCall EXCEPT !.op = IF requested THEN "on_process_requested"
                                         ELSE "process_appendices"]
        /\ GuiOnly
        /\ UNCHANGED <<appendix_data, numbering_style, window, settings>>

Rows == 0 .. MaxList - 1
Replies == {"Yes", "No"}

\* a session of the operations on the appendix lists
NextGui ==
    \/ \E file_paths \in FileBatches : AddFiles(file_paths)
    \/ \E index \in Rows : MoveUp(index)
    \/ \E index \in Rows : MoveDown(index)
    \/ \E index \in Rows, reply \in Replies : RemoveAppendix(index, reply)
    \/ \E index \in Rows : EditAppendix(index)
    \/ ClearProject
    \/ \E project \in Projects : LoadProject(project)
    \/ \E source_index \in Rows, dest_index \in Rows : DropEvent(source_index, dest_index)

SpecGui == Init /\ [][NextGui]_vars

\* a session of selecting a document, filling the list and asking for a run
NextRequest ==
    \/ SelectDocument
    \/ \E file_paths \in FileBatches : AddFiles(file_paths)
    \/ \E index \in Rows, reply \in Replies : RemoveAppendix(index, reply)
    \/ ClearProject
    \/ \E project \in Projects : LoadProject(project)
    \/ \E confirm \in Replies, reply \in Replies : ProcessAppendices(confirm, reply)

SpecRequest == Init /\ [][NextRequest]_vars

\* a session of adding, removing, moving and renumbering only
NextReorder ==
    \/ \E file_paths \in FileBatches : AddFiles(file_paths)
    \/ \E index \in Rows : MoveUp(index)
    \/ \E index \in Rows : MoveDown(index)
    \/ \E index \in Rows, reply \in Replies : RemoveAppendix(index, reply)
    \/ \E style \in {"alphabetical", "numeric"} : OnNumberingChanged(style)

SpecReorder == Init /\ [][NextReorder]_vars

----------------------------------------------------------------------------
(* Properties of the coordinator *)

\* the claim's precondition of a failing add_appendix: the path is absent or
\* names no file, the page count is not positive, or the insertion fails
Fails(arg) ==
    \/ arg.data.path = NoPath
    \/ arg.data.path \notin ExistingPdfs
    \/ arg.data.page_count <= 0
    \/ ~arg.ok

\* C1: every record of appendices_added other than the first starts on the
\* page after the end page of the record before it
C1_ChainedStartPages ==
    \A i \in 2 .. Len(appendices_added) :
        appendices_added[i].start_page = appendices_added[i - 1].end_page + 1

\* two records are held, and the last call was an add_appendix that failed
C1_Witness ==
    /\ Len(appendices_added) >= 2
    /\ last.op = "add_appendix"
    /\ last.err = "AppendixError"

\* C2: every record of appendices_added has a positive page count and
\* end_page = start_page + page_count - 1
C2_EndPage ==
    \A i \in 1 .. Len(appendices_added) :
        /\ appendices_added[i].page_count > 0
        /\ appendices_added[i].end_page =
              appendices_added[i].start_page + appendices_added[i].page_count - 1

\* a record of more than one page that follows another record
C2_Witness ==
    /\ Len(appendices_added) >= 2
    /\ appendices_added[2].page_count = 3
    /\ appendices_added[2].start_page > FirstStartPage

\* C3: an add_appendix whose path is absent or names no file, whose page
\* count is not positive or whose insertion fails raises AppendixError and
\* appends no record
C3_AddAppendixFails ==
    [][(last'.op = "add_appendix" /\ Fails(last'.args[1]))
          => (last'.err = "AppendixError" /\ appendices_added' = appendices_added)]_vars

\* the backend's insertion failed for a valid record while a record was held
C3_Witness ==
    /\ last.op = "add_appendix"
    /\ ~last.args[1].ok
    /\ last.args[1].data.path \in ExistingPdfs
    /\ last.args[1].data.page_count > 0
    /\ last.err = "AppendixError"
    /\ Len(appendices_added) = 1

\* C4: add_multiple_appendices with N records of which M fail returns N - M,
\* raises nothing, and has appended as many records as it returns
C4_AddMultipleCount ==
    [][last'.op = "add_multiple_appendices"
          => LET args == last'.args
                 M == Cardinality({i \in 1 .. Len(args) : Fails(args[i])})
             IN  /\ last'.err = "none"
                 /\ last'.ret = Len(args) - M
                 /\ last'.ret = Len(appendices_added') - Len(appendices_added)]_vars

\* a batch of two records of which the first failed and the second was added
C4_Witness ==
    /\ last.op = "add_multiple_appendices"
    /\ Len(last.args) = 2
    /\ Fails(last.args[1])
    /\ ~Fails(last.args[2])
    /\ last.ret = 1

\* C5: a create_final_pdf without an output path writes to the first default
\* name that held no file (the plain name, else the smallest suffix n >= 1),
\* leaves every file that existed at a default name as it was, and the path
\* it returns holds a file from then on, so that no later call returns it
C5_DefaultPathIsFresh ==
    [][/\ \A n \in OutPaths : fs_out[n] # NoFile => fs_out'[n] # NoFile
       /\ (last'.op = "create_final_pdf" /\ last'.default_path /\ last'.out >= 0)
            => /\ last'.out \in DefaultNames
               /\ fs_out[last'.out] = NoFile
               /\ \A n \in DefaultNames : n < last'.out => fs_out[n] # NoFile
               /\ \A n \in DefaultNames : fs_out[n] # NoFile => fs_out'[n] = fs_out[n]
               /\ last'.err = "none" => fs_out'[last'.out] # NoFile]_vars

\* the plain name was taken and the call wrote to the name with suffix 1
C5_Witness ==
    /\ last.op = "create_final_pdf"
    /\ last.default_path
    /\ last.err = "none"
    /\ last.out = 1
    /\ fs_out[0] = OldContent
    /\ fs_out[1] # NoFile

C7_NothingLeftBehind ==
    [][last'.op = "cleanup_temp_files"
          => /\ Range(temp_files) \cap fs_temp' = {}
             /\ temp_files' = <<>>
             /\ temp_dir # 0 => temp_dir \notin fs_dirs'
             /\ temp_dir' = 0]_vars

\* C7 amended: after cleanup_temp_files temp_files is empty and the backend's
\* temp_dir reference is unset; when the filesystem refused no deletion, no
\* path recorded in temp_files exists and the temp directory does not exist
C7_NothingLeftBehindUnlessRefused ==
    [][last'.op = "cleanup_temp_files"
          => /\ temp_files' = <<>>
             /\ temp_dir' = 0
             /\ (last'.unlink_ok /\ last'.rmtree_ok)
                  => /\ Range(temp_files) \cap fs_temp' = {}
                     /\ temp_dir # 0 => temp_dir \notin fs_dirs']_vars

\* a cleanup with a tracked temp file and no refused deletion: the temp
\* directory that was made is gone
C7_Witness ==
    /\ last.op = "cleanup_temp_files"
    /\ last.tracked >= 1
    /\ last.unlink_ok /\ last.rmtree_ok
    /\ next_dir > 1
    /\ fs_dirs = {}
    /\ fs_temp = {}

----------------------------------------------------------------------------
(* Properties of validate_appendices *)

MissingMsgs == {"No PDF file specified", "PDF file not found"}
WarningMsgs == {"Large file size", "Many pages", "PDF is encrypted"}

\* the record names no file that exists
Missing(c) == c.path = NoPath \/ ~PdfFiles[c.path].exists

\* the backend reads the record's file and reports on it
Reported(c) == ~Missing(c) /\ PdfFiles[c.path].readable

\* the backend's validation of the record's file raises
BackendRaises(c) == ~Missing(c) /\ ~PdfFiles[c.path].readable

\* how many warning strings the backend reports for the record
WarningCount(c) ==
    IF ~Reported(c) THEN 0
    ELSE (IF PdfFiles[c.path].size_mb > 50 THEN 1 ELSE 0)
         + (IF PdfFiles[c.path].page_count > 1000 THEN 1 ELSE 0)
         + (IF PdfFiles[c.path].encrypted THEN 1 ELSE 0)

\* the entries of the returned list made for record i with a text in msgs
EntryCount(i, msgs) ==
    Cardinality({j \in 1 .. Len(v_out.errors) :
                    v_out.errors[j].id = i /\ v_out.errors[j].msg \in msgs})

Bit(b) == IF b THEN 1 ELSE 0

\* the entries the claim lists for record c
ListedCount(c) ==
    Bit(Missing(c))
    + Bit(Reported(c) /\ PdfFiles[c.path].page_count <= 0)
    + Bit(Reported(c) /\ PdfFiles[c.path].size_mb > max_pdf_size_mb)
    + WarningCount(c)

RECURSIVE SumOver(_, _)
SumOver(cands, n) ==
    IF n = 0 THEN 0 ELSE SumOver(cands, n - 1) + ListedCount(cands[n])

\* one entry per missing file, per page count that is not positive, per
\* size over the maximum and per warning of the backend
ListedEntries ==
    \A i \in 1 .. Len(v_in) :
        /\ EntryCount(i, MissingMsgs) = Bit(Missing(v_in[i]))
        /\ EntryCount(i, {"PDF has no pages"}) =
              Bit(Reported(v_in[i]) /\ PdfFiles[v_in[i].path].page_count <= 0)
        /\ EntryCount(i, {"File too large"}) =
              Bit(Reported(v_in[i]) /\ PdfFiles[v_in[i].path].size_mb > max_pdf_size_mb)
        /\ EntryCount(i, WarningMsgs) = WarningCount(v_in[i])

\* C8 as stated: validate_appendices returns one entry per record whose file
\* is missing, one per record whose page count is not positive, one per
\* record whose size exceeds the configured maximum and one per warning the
\* backend reports, no other entry, and as many entries as these counts sum to
C8_ExactlyListedEntries ==
    last.op = "validate_appendices" =>
        /\ ~v_out.raised
        /\ ListedEntries
        /\ \A j \in 1 .. Len(v_out.errors) :
              /\ v_out.errors[j].id \in 1 .. Len(v_in)
              /\ v_out.errors[j].msg \in
                    MissingMsgs \cup {"PDF has no pages", "File too large"} \cup WarningMsgs
        /\ Len(v_out.errors) = SumOver(v_in, Len(v_in))

\* C8 amended: validate_appendices returns one entry per record whose file
\* is missing, and for a file that exists one per page count the backend
\* reports as not positive, one per size over the configured maximum, one
\* per warning the backend reports, and one per record whose backend
\* validation raises; no other entry, and as many entries as these counts
\* sum to
C8_ListedEntriesAndValidationFailures ==
    last.op = "validate_appendices" =>
        /\ ~v_out.raised
        /\ ListedEntries
        /\ \A i \in 1 .. Len(v_in) :
              EntryCount(i, {"PDF validation failed"}) = Bit(BackendRaises(v_in[i]))
        /\ \A j \in 1 .. Len(v_out.errors) :
              /\ v_out.errors[j].id \in 1 .. Len(v_in)
              /\ v_out.errors[j].msg \in
                    MissingMsgs \cup {"PDF has no pages", "File too large", "PDF validation failed"}
                    \cup WarningMsgs
        /\ Len(v_out.errors) =
              SumOver(v_in, Len(v_in))
              + Cardinality({i \in 1 .. Len(v_in) : BackendRaises(v_in[i])})

\* a file the backend cannot read, then a file over the maximum: one entry
\* for the first, an error and a warning for the second
C8_Witness ==
    /\ last.op = "validate_appendices"
    /\ Len(v_in) = 2
    /\ v_in[1].path = "corrupt.pdf"
    /\ v_in[2].path = "big.pdf"
    /\ max_pdf_size_mb = 200
    /\ Len(v_out.errors) = 3

\* C9: validate_appendices raises nothing; it examines every record, so a
\* record with a problem has an entry whatever happened for the records
\* before it
C9_ValidateNeverRaises ==
    last.op = "validate_appendices" =>
        /\ ~v_out.raised
        /\ v_out.examined = Len(v_in)
        /\ \A i \in 1 .. Len(v_in) :
              (Missing(v_in[i]) \/ BackendRaises(v_in[i]))
                 => \E j \in 1 .. Len(v_out.errors) : v_out.errors[j].id = i

\* the backend raised for the first record and the second was still reported
C9_Witness ==
    /\ last.op = "validate_appendices"
    /\ Len(v_in) = 2
    /\ v_in[1].path = "corrupt.pdf"
    /\ v_in[2].path = "gone.pdf"
    /\ \E j \in 1 .. Len(v_out.errors) :
          v_out.errors[j] = [id |-> 2, msg |-> "PDF file not found"]

----------------------------------------------------------------------------
(* Properties of the controller's titles *)

AlphabeticalTitles ==
    <<"Appendix A", "Appendix B", "Appendix C", "Appendix D", "Appendix E",
      "Appendix F", "Appendix G", "Appendix H", "Appendix I", "Appendix J",
      "Appendix K", "Appendix L", "Appendix M", "Appendix N", "Appendix O",
      "Appendix P", "Appendix Q", "Appendix R", "Appendix S", "Appendix T",
      "Appendix U", "Appendix V", "Appendix W", "Appendix X", "Appendix Y",
      "Appendix Z">>

NumericTitles ==
    <<"Appendix 1", "Appendix 2", "Appendix 3", "Appendix 4", "Appendix 5",
      "Appendix 6", "Appendix 7", "Appendix 8", "Appendix 9", "Appendix 10",
      "Appendix 11", "Appendix 12", "Appendix 13", "Appendix 14", "Appendix 15",
      "Appendix 16", "Appendix 17", "Appendix 18", "Appendix 19", "Appendix 20",
      "Appendix 21", "Appendix 22", "Appendix 23", "Appendix 24", "Appendix 25",
      "Appendix 26">>

\* C10: the k-th appendix added to an empty list, k = 1..26, is titled
\* "Appendix " and the k-th uppercase letter under alphabetical numbering and
\* "Appendix " and the decimal k under numeric numbering, in however many
\* batches the files came and whether or not they passed validation
C10_TitleOfKthAppendix ==
    \A k \in 1 .. Len(appendix_data) :
        k <= 26 =>
            appendix_data[k].title =
                IF numbering_style = "alphabetical" THEN AlphabeticalTitles[k]
                ELSE NumericTitles[k]

\* 26 appendices added in batches of at most two, two of them invalid, the
\* second batch starting with an invalid file
C10_Witness ==
    /\ last.op = "_process_pdf_files"
    /\ Len(appendix_data) = 26
    /\ numbering_style = "alphabetical"
    /\ ~appendix_data[2].valid
    /\ ~appendix_data[25].valid
    /\ appendix_data[26].title = "Appendix Z"

----------------------------------------------------------------------------
(* Further properties of the coordinator *)

\* the records held after the inputs args were tried on a coordinator holding
\* prev: one more record per input that does not fail, each starting on the
\* page after the record before it
RECURSIVE Chained(_, _)
Chained(prev, args) ==
    IF args = <<>> THEN prev
    ELSE IF Fails(Head(args)) THEN Chained(prev, Tail(args))
    ELSE LET d == Head(args).data
             start == IF prev = <<>> THEN 10 ELSE prev[Len(prev)].end_page + 1
         IN  Chained(Append(prev, [title |-> d.title, pdf_path |-> d.path,
                                   page_count |-> d.page_count, start_page |-> start,
                                   end_page |-> start + d.page_count - 1]),
                     Tail(args))

\* C15: after add_multiple_appendices on a coordinator holding R,
\* appendices_added is R followed by one record per input that succeeded, in
\* input order, the inputs after a failed one included, with pages chained
\* as if the failed inputs had not been in the list
C15_BatchSkipsFailures ==
    [][last'.op = "add_multiple_appendices"
          => appendices_added' = Chained(appendices_added, last'.args)]_vars

\* a batch whose first input failed and whose second was chained to the
\* record the coordinator held before
C15_Witness ==
    /\ last.op = "add_multiple_appendices"
    /\ Len(last.args) = 2
    /\ Fails(last.args[1])
    /\ ~Fails(last.args[2])
    /\ Len(appendices_added) = 2
    /\ appendices_added[2].pdf_path = last.args[2].data.path
    /\ appendices_added[2].start_page = appendices_added[1].end_page + 1

\* C16: an add_appendix whose source PDF is absent or missing, or whose page
\* count is not positive, does not invoke the backend's add_appendix_section
\* and leaves the document, appendices_added and temp_files unchanged
C16_ChecksBeforeBackend ==
    [][(/\ last'.op = "add_appendix"
        /\ \/ last'.args[1].data.path = NoPath
           \/ last'.args[1].data.path \notin ExistingPdfs
           \/ last'.args[1].data.page_count <= 0)
          => /\ ~last'.invoked
             /\ document' = document
             /\ appendices_added' = appendices_added
             /\ temp_files' = temp_files]_vars

\* a record of an existing PDF with page count 0 was refused on a document
\* that already holds a section
C16_Witness ==
    /\ last.op = "add_appendix"
    /\ last.args[1].data.path \in ExistingPdfs
    /\ last.args[1].data.page_count = 0
    /\ last.err = "AppendixError"
    /\ ~last.invoked
    /\ Sections(document) = 1

\* C20: a successful add_appendix appends to the end of the document a page
\* break, a heading with the title and page_count - 1 times a page break and
\* an empty paragraph, what was there before staying in place; the page
\* breaks appended are page_count, which is end_page - start_page + 1 of the
\* record
C20_PlaceholderSection ==
    [][(last'.op = "add_appendix" /\ last'.err = "none")
          => LET d == last'.args[1].data
                 n == d.page_count
                 old == Len(document)
                 rec == appendices_added'[Len(appendices_added')]
             IN  /\ Len(document') = old + 2 * n
                 /\ \A j \in 1 .. old : document'[j] = document[j]
                 /\ document'[old + 1] = [kind |-> "break", text |-> ""]
                 /\ document'[old + 2] = [kind |-> "heading", text |-> d.title]
                 /\ \A j \in 3 .. 2 * n :
                       document'[old + j] =
                           IF j % 2 = 1 THEN [kind |-> "break", text |-> ""]
                           ELSE [kind |-> "para", text |-> ""]
                 /\ Cardinality({j \in old + 1 .. old + 2 * n : document'[j].kind = "break"})
                       = rec.end_page - rec.start_page + 1]_vars

\* a one-page appendix added after a three-page one: two headings in call
\* order and four page breaks
C20_Witness ==
    /\ last.op = "add_appendix"
    /\ last.err = "none"
    /\ last.args[1].data.page_count = 1
    /\ Len(document) = 8
    /\ document[2] = [kind |-> "heading", text |-> "Appendix A"]
    /\ document[8] = [kind |-> "heading", text |-> "Appendix B"]

\* C17: when the export phase of create_final_pdf fails (the backend raises,
\* or returns without the exported file existing), create_final_pdf raises
\* AppendixError, the files at the output paths are as before, the merge is
\* not invoked and temp_files gains no entry
C17_ExportFailureStopsAssembly ==
    [][(/\ last'.op = "create_final_pdf"
        /\ \/ last'.export = "raise"
           \/ last'.export = "nofile" /\ temp_dir' \notin fs_temp)
          => /\ last'.err = "AppendixError"
             /\ fs_out' = fs_out
             /\ ~last'.merged
             /\ temp_files' = temp_files]_vars

\* the backend raised during the export of a session that holds a record:
\* the temp directory was made and nothing is tracked
C17_Witness ==
    /\ last.op = "create_final_pdf"
    /\ last.export = "raise"
    /\ last.err = "AppendixError"
    /\ appendices_added # <<>>
    /\ temp_dir # 0
    /\ temp_files = <<>>

\* C18 as stated: after create_final_pdf, cleanup_temp_files and reset each
\* leave appendices_added and temp_files empty, so that the next record
\* starts on the first-record page and the next merge lists no appendix
C18_CleanupOrResetGivesIdle ==
    [][(/\ last.op = "create_final_pdf" /\ last.err = "none"
        /\ last'.op \in {"cleanup_temp_files", "reset"})
          => /\ appendices_added' = <<>>
             /\ temp_files' = <<>>
             /\ _calculate_start_page(appendices_added') = 10
             /\ pdf_list(ExportedContent, appendices_added') = <<ExportedContent>>]_vars

\* C18 amended: after create_final_pdf, reset leaves appendices_added and
\* temp_files empty, so that the next record starts on the first-record page
\* and the next merge lists no appendix; cleanup_temp_files empties
\* temp_files only and leaves appendices_added as it was
C18_ResetGivesIdleCleanupKeepsRecords ==
    [][/\ (last.op = "create_final_pdf" /\ last'.op = "reset")
            => /\ appendices_added' = <<>>
               /\ temp_files' = <<>>
               /\ _calculate_start_page(appendices_added') = 10
               /\ pdf_list(ExportedContent, appendices_added') = <<ExportedContent>>
       /\ (last.op = "create_final_pdf" /\ last'.op = "cleanup_temp_files")
            => /\ temp_files' = <<>>
               /\ appendices_added' = appendices_added]_vars

\* a reset after a final PDF was merged from two records
C18_Witness ==
    /\ last.op = "reset"
    /\ appendices_added = <<>>
    /\ temp_files = <<>>
    /\ \E n \in OutPaths : Len(fs_out[n]) = 3

----------------------------------------------------------------------------
(* Properties of a processing run *)

\* C11: when a processing run has ended, completed, failed or cancelled, no
\* temporary file and no temporary directory made by the run exists
C11_RunLeavesNoTempFiles ==
    worker.pc = "ended" => (fs_dirs = {} /\ fs_temp = {})

\* C12 as stated: a create_final_pdf without an output path places the
\* output file in the directory of the source document
C12_OutputBesideDocument ==
    (last.op = "create_final_pdf" /\ last.err = "none" /\ last.default_path)
        => last.out_dir = worker.document_dir

\* C12 amended: a create_final_pdf without an output path places the output
\* file in the Documents directory of the user's home, whatever directory
\* holds the source document
C12_OutputInHomeDocuments ==
    (last.op = "create_final_pdf" /\ last.err = "none" /\ last.default_path)
        => last.out_dir = HomeDocuments

\* a run on a document outside the home Documents directory wrote its PDF
C12_Witness ==
    /\ worker.pc = "ended"
    /\ worker.document_dir = WorkDir
    /\ worker.output_pdf >= 0
    /\ last.op = "create_final_pdf"
    /\ last.default_path
    /\ fs_out[last.out] # NoFile
    /\ last.out_dir # worker.document_dir

\* C13: once the cancellation flag is set, no add_appendix, save_document or
\* create_final_pdf call begins
C13_NoStepBeginsAfterStop ==
    [][(worker'.pc \in {"in_add", "in_save", "in_export"} /\ worker'.pc # worker.pc)
          => ~worker.should_stop]_vars

\* the message the claim expects processing_failed to carry for a step
FailureText(step) ==
    CASE step = "open_document"   -> "Processing failed: Failed to open document"
      [] step = "create_backup"   -> "Processing failed: Failed to create backup"
      [] step = "add_appendix"    -> "Processing failed: Failed to add appendix"
      [] step = "save_document"   -> "Processing failed: Failed to save document"
      [] OTHER                    -> "Processing failed: Failed to create final PDF"

\* C14 as stated: a failure of any step of a run ends the run with no later
\* step begun, processing_failed emitted with the failure's text and
\* processing_completed not emitted
C14_AnyFailureAborts ==
    worker.failure # "none"
        => /\ worker.pc = "ended"
           /\ worker.steps[Len(worker.steps)] = worker.failure
           /\ worker.failed = FailureText(worker.failure)
           /\ ~worker.completed

\* C14 amended: a failure of opening or selecting the document, of the
\* backup, of an add_appendix or of the save ends the run with no later step
\* begun, processing_failed emitted with the failure's text and
\* processing_completed not emitted; a failure of create_final_pdf is caught:
\* the run completes, processing_completed is emitted with no output PDF and
\* processing_failed is not emitted
C14_FailureAbortsExceptExport ==
    /\ worker.failure \in {"open_document", "create_backup", "add_appendix", "save_document"}
          => /\ worker.pc = "ended"
             /\ worker.steps[Len(worker.steps)] = worker.failure
             /\ worker.failed = FailureText(worker.failure)
             /\ ~worker.completed
    /\ worker.failure = "create_final_pdf"
          => /\ worker.pc = "ended"
             /\ worker.completed
             /\ worker.failed = "none"
             /\ worker.output_pdf = 0 - 1

\* the second add_appendix of a run failed after the first had succeeded
C14_Witness ==
    /\ worker.pc = "ended"
    /\ worker.failure = "add_appendix"
    /\ worker.i = 2
    /\ Len(worker.appendix_data) = 2
    /\ Len(appendices_added) = 1
    /\ worker.steps[Len(worker.steps)] = "add_appendix"

----------------------------------------------------------------------------
(* Properties of the records and of the summary *)

\* C21: no operation changes a record held or its position: every operation
\* other than reset keeps the records held as a prefix, a successful
\* add_appendix appends exactly one record, a failed add_appendix,
\* create_final_pdf, validate_appendices, get_processing_summary and
\* cleanup_temp_files leave the list as it was, and reset empties it
C21_RecordsNeverMutated ==
    [][/\ last'.op # "reset"
            => /\ Len(appendices_added') >= Len(appendices_added)
               /\ \A i \in 1 .. Len(appendices_added) :
                     appendices_added'[i] = appendices_added[i]
       /\ (last'.op = "add_appendix" /\ last'.err = "none")
            => Len(appendices_added') = Len(appendices_added) + 1
       /\ \/ last'.op = "add_appendix" /\ last'.err # "none"
          \/ last'.op \in {"create_final_pdf", "validate_appendices",
                           "get_processing_summary", "cleanup_temp_files"}
            => appendices_added' = appendices_added
       /\ last'.op = "reset" => appendices_added' = <<>>]_vars

\* a third record was appended to two records held
C21_Witness ==
    /\ last.op = "add_appendix"
    /\ last.err = "none"
    /\ Len(appendices_added) = 3
    /\ temp_files # <<>>

\* C27: when records are held their page ranges are disjoint and contiguous,
\* the span from the first start_page to the last end_page is the sum of the
\* page counts and total_pages of the summary, and appendices_count of the
\* summary is the number of records
C27_RangesAndSummary ==
    LET n == Len(appendices_added)
        summary == get_processing_summary(appendices_added)
        span == appendices_added[n].end_page - appendices_added[1].start_page + 1
    IN  /\ summary.appendices_count = n
        /\ last.op = "get_processing_summary"
              => (last.ret = summary.total_pages /\ last.tracked = n)
        /\ n >= 1 =>
              /\ \A i \in 1 .. n : \A j \in 1 .. n :
                    i < j => appendices_added[i].end_page < appendices_added[j].start_page
              /\ \A i \in 2 .. n :
                    appendices_added[i].start_page = appendices_added[i - 1].end_page + 1
              /\ span = sum_page_count(appendices_added)
              /\ span = summary.total_pages

\* the summary was asked for with records of different lengths held
C27_Witness ==
    /\ last.op = "get_processing_summary"
    /\ Len(appendices_added) >= 2
    /\ appendices_added[1].page_count # appendices_added[2].page_count
    /\ last.ret = appendices_added[1].page_count + appendices_added[2].page_count

----------------------------------------------------------------------------
(* Properties of a run's backup and of its signals *)

\* the position of the first occurrence of step in steps, 0 if none
FirstStep(steps, step) ==
    IF \E k \in 1 .. Len(steps) : steps[k] = step
    THEN CHOOSE k \in 1 .. Len(steps) :
            steps[k] = step /\ \A j \in 1 .. k - 1 : steps[j] # step
    ELSE 0

\* C23: with auto-backup enabled the backup is made after the document is
\* opened and before the first placeholder is inserted, and a run whose
\* backup failed inserts no placeholder, saves nothing and exports nothing;
\* with auto-backup disabled no backup is made
C23_BackupBeforePlaceholders ==
    LET steps == worker.steps
        opened == FirstStep(steps, "open_document")
        backup == FirstStep(steps, "create_backup")
        added == FirstStep(steps, "add_appendix")
    IN  /\ backup # 0 => (opened # 0 /\ opened < backup)
        /\ (worker.auto_backup /\ added # 0) => (backup # 0 /\ backup < added)
        /\ (worker.auto_backup /\ worker.pc \in {"check", "add", "in_add", "after_loop",
                                                "save", "in_save", "export", "in_export"})
              => backup # 0
        /\ worker.failure = "create_backup"
              => /\ worker.pc = "ended"
                 /\ \A k \in 1 .. Len(steps) :
                       steps[k] \notin {"add_appendix", "save_document", "create_final_pdf"}
                 /\ document = <<>>
                 /\ appendices_added = <<>>
                 /\ \A p \in OutPaths : fs_out[p] = NoFile
        /\ ~worker.auto_backup => backup = 0

\* the backup of a run that was to insert two appendices failed
C23_Witness ==
    /\ worker.pc = "ended"
    /\ worker.auto_backup
    /\ worker.failure = "create_backup"
    /\ Len(worker.appendix_data) = 2
    /\ worker.steps = <<"open_document", "create_backup">>

\* C28: a run emits at most one of processing_completed and
\* processing_failed, none before it has ended, exactly one when it did not
\* return because of cancellation and none when it did; the percentages it
\* emits are within 0..100 and never decrease, and 100 is emitted only in a
\* run that emits processing_completed
C28_OneTerminalSignal ==
    LET progress == worker.progress IN
    /\ ~(worker.completed /\ worker.failed # "none")
    /\ worker.pc # "ended" => (~worker.completed /\ worker.failed = "none")
    /\ (worker.pc = "ended" /\ ~worker.cancelled)
          => (worker.completed \/ worker.failed # "none")
    /\ worker.cancelled
          => (worker.pc = "ended" /\ ~worker.completed /\ worker.failed = "none")
    /\ \A k \in 1 .. Len(progress) : progress[k] \in 0 .. 100
    /\ \A k \in 2 .. Len(progress) : progress[k - 1] <= progress[k]
    /\ (\E k \in 1 .. Len(progress) : progress[k] = 100) => worker.completed

\* a run was cancelled after its first of two appendices was added
C28_Witness ==
    /\ worker.pc = "ended"
    /\ worker.cancelled
    /\ Len(worker.appendix_data) = 2
    /\ Len(appendices_added) = 1
    /\ worker.progress[Len(worker.progress)] = 30

\* C29: once cancel_processing has reported the cancellation, the run
\* reports neither a completion nor a failure
C29_NoReportAfterCancel ==
    [][controller.cancel_reported => controller'.reported = controller.reported]_vars

----------------------------------------------------------------------------
(* Properties of the settings *)

\* C30: after reset_to_defaults, get returns for every key the value the
\* defaults had when the settings object was constructed
C30_ResetRestoresDefaults ==
    last.op = "reset_to_defaults"
        => \A p \in KeyPaths :
              settings_get(settings, p[1], p[2]) = OriginalDefaults[p[1]][p[2]]

----------------------------------------------------------------------------
(* Properties of the window and the controller *)

\* an entry of data for which _validate_appendices has an error to report
HasInvalidEntry(data) ==
    \E i \in 1 .. Len(data) :
        \/ ~PdfFiles[data[i].path].exists
        \/ data[i].page_count <= 0
        \/ ~data[i].valid

\* C22: a request to process starts a run only when the controller holds a
\* document and a non-empty appendix list and, when an entry of the list is
\* in error, only after the errors were presented and the user answered
\* Yes; a request that starts no run leaves the worker and the document
\* as they were
C22_RunStartsOnlyWhenAllowed ==
    [][last'.op \in {"on_process_requested", "process_appendices"}
          => /\ controller'.started
                  => /\ controller.current_document # "none"
                     /\ appendix_data # <<>>
                     /\ HasInvalidEntry(appendix_data)
                           => /\ controller'.asked
                              /\ controller'.errors # <<>>
                              /\ controller'.reply = "Yes"
                     /\ worker'.pc = "open"
                     /\ worker'.appendix_data = appendix_data
             /\ ~controller'.started => (worker' = worker /\ document' = document)]_vars

\* a run was started on a list with an entry in error, after the user
\* answered Yes to the list of errors
C22_Witness ==
    /\ last.op = "on_process_requested"
    /\ controller.started
    /\ controller.asked
    /\ controller.reply = "Yes"
    /\ HasInvalidEntry(appendix_data)
    /\ worker.pc = "open"
    /\ worker.appendix_data = appendix_data

Paths(data) == [i \in 1 .. Len(data) |-> data[i].path]

\* C24: a confirmed removal of the selected entry, once PDFs were added
\* through the controller, makes the list that is displayed and processed
\* shorter by exactly one and keeps the other entries in their order
C24_RemovesExactlyOne ==
    [][(last'.op = "remove_appendix" /\ last'.args = <<"Yes">> /\ window.shares)
          => /\ Len(appendix_data') = Len(appendix_data) - 1
             /\ Len(window'.displayed) = Len(window.displayed) - 1
             /\ Paths(appendix_data') = Paths(RemoveAt(appendix_data, last'.ret + 1))]_vars

\* C25: the controller's appendix list holds the same records in the same
\* order as the window's list and as the list the widget displays
C25_ListsAgree ==
    /\ appendix_data = WindowData
    /\ window.displayed = WindowData

\* C26: the record at position i carries the title _generate_appendix_title
\* gives for index i under the numbering style selected
C26_TitlesFollowPositions ==
    \A i \in 1 .. Len(appendix_data) :
        appendix_data[i].title = _generate_appendix_title(numbering_style, i - 1)
====
